---- MODULE Spec2Model ----
(***************************************************************************)
(* Model of two subsystems of the BigQuery demo repository:                *)
(*   - the REST orchestrator, src/user-interface/api/main.py               *)
(*   - the notebook patchers, src/final_fix.py, src/fix_sql_syntax.py,     *)
(*     src/update_to_public_data.py and src/fix_ai_generate.py             *)
(* The external query engine is an opaque collaborator: its answer to a    *)
(* call is an input of the handler (an error, or a sequence of rows).      *)
(* Every handler of main.py is an `async def` without an await, so it runs *)
(* to completion on the event loop: one action per handler.                *)
(***************************************************************************)
EXTENDS Integers, Sequences, FiniteSets, TLC

VARIABLES
    project,    \* os.getenv('BIGQUERY_PROJECT'), fixed for the process
    request,    \* the request served last
    answer,     \* what the engine answered to that request's call
    calls,      \* the client.query calls that request made, in order
    logged,     \* what that request wrote with logging.error
    response,   \* the HTTP response that request received
    user_preferences, \* the rows of the engine's table enterprise_ai.user_preferences
    inflight,   \* the requests being served concurrently, one frame per slot
    file,       \* enterprise_knowledge_ai_demo.ipynb as stored
    before,     \* the stored file when the last patcher run started
    lastRun     \* script, outcome and printed count of the last patcher run

vars ==
    <<project, request, answer, calls, logged, response, user_preferences, inflight,
      file, before, lastRun>>
apiVars ==
    <<project, request, answer, calls, logged, response, user_preferences, inflight>>
patcherVars == <<file, before, lastRun>>

\* ------------------------------------------------------------------ bounds
MaxRows == 2
MaxSubmissions == 2
MaxInFlight == 2

\* ------------------------------------------------------------ common values
NULL == "NULL"

RECURSIVE SeqsUpTo(_, _)
SeqsUpTo(S, n) ==
    IF n = 0 THEN {<<>>}
    ELSE LET shorter == SeqsUpTo(S, n - 1)
         IN  shorter \cup {Append(s, x) : s \in {t \in shorter : Len(t) = n - 1}, x \in S}

\* ====================================================================
\* REST orchestrator (src/user-interface/api/main.py)
\* ====================================================================

\* ------------------------------------------------------------- the routes
RootRoute == "GET /"
InsightRoute == "POST /insights/generate"
ForecastRoute == "POST /forecasts/generate"
PersonalizedRoute == "GET /insights/personalized"
DashboardRoute == "GET /analytics/dashboard"
PreferencesRoute == "POST /users/preferences"

AuthenticatedRoutes ==
    {InsightRoute, ForecastRoute, PersonalizedRoute, DashboardRoute, PreferencesRoute}

\* ------------------------------------------------------------ credentials
\* The Authorization header of a request: absent, "Bearer " with an empty
\* token, or "Bearer <token>".
NoHeader == "<no Authorization header>"
EmptyToken == ""
Tokens == {"demo-token", "other-token"}
Credentials == {NoHeader, EmptyToken} \cup Tokens

\* ------------------------------------------------------------- exceptions
HTTPException(status, detail) ==
    [class |-> "HTTPException", status |-> status, detail |-> detail]

\* An exception of the engine client or of the row mapping; text is str(e).
Error(class, text) == [class |-> class, text |-> text]

\* Both are subclasses of Exception: `except Exception` catches each of them.
ExceptionSubclasses ==
    {"HTTPException", "GoogleAPIError", "ValidationError", "TypeError",
     "AttributeError", "JSONDecodeError"}

\* str(e): the text of the exception (for an HTTPException, its detail; the
\* status prefix some library versions add is left out).
Str(e) ==
    IF e.class = "HTTPException" THEN e.detail ELSE e.text

Return(v) == [kind |-> "return", value |-> v]
Raise(e) == [kind |-> "raise", exc |-> e]

\* ---------------------------------------------------------- authentication
\* security = HTTPBearer(): the library rejects a request without an
\* Authorization header with "Not authenticated"; the status is 403 or 401
\* depending on the installed FastAPI.  An empty token is either rejected the
\* same way or handed on to get_current_user.
BearerBehaviours ==
    [status : {401, 403}, passesEmpty : BOOLEAN]

security(authorization, lib) ==
    IF authorization = NoHeader \/ (authorization = EmptyToken /\ ~lib.passesEmpty)
    THEN Raise(HTTPException(lib.status, "Not authenticated"))
    ELSE Return([credentials |-> authorization])

DemoUser == [user_id |-> "demo_user", role |-> "analyst"]

get_current_user_TokenIdentity(credentials) ==
    IF credentials.credentials = EmptyToken
    THEN Raise(HTTPException(401, "Invalid authentication"))
    ELSE Return([user_id |-> credentials.credentials,
                 role |-> IF credentials.credentials = "demo-token" THEN "analyst"
                          ELSE "guest"])

get_current_user_NoCheck(credentials) ==
    Return(DemoUser)

get_current_user(credentials) ==
    IF credentials.credentials = EmptyToken
    THEN Raise(HTTPException(401, "Invalid authentication"))
    ELSE Return(DemoUser)

\* Depends(get_current_user) with its own Depends(security).
ResolveDependencies(authorization, lib) ==
    LET bearer == security(authorization, lib)
    IN  IF bearer.kind = "raise" THEN bearer ELSE get_current_user(bearer.value)

\* ------------------------------------------------------------- the engine
\* What the external engine does with one client.query(...).result(): it
\* fails with some cause, or it returns rows.
Causes == {"403 Access Denied: project p1", "Connection reset by peer"}

Failed(cause) == [kind |-> "error", cause |-> cause]
Rows(rows) == [kind |-> "rows", rows |-> rows]
NoAnswer == [kind |-> "none"]

EngineErrors == {Failed(c) : c \in Causes}

\* The SQL text of a call: the template of the handler, the project
\* identifier the f-string reads from the environment, and the request
\* values the f-string writes into the text.
Sql(template, inlined) ==
    [template |-> template, project |-> project, inlined |-> inlined]

Call(sql, params) == [sql |-> sql, params |-> params]

\* ---------------------------------------------------- the catch-all clause
\* except Exception as e: logging.error(f"<prefix>: {str(e)}");
\*                        raise HTTPException(status_code=500, detail=<fixed>)
LogPrefix(route) ==
    CASE route = InsightRoute -> "Error generating insight"
      [] route = ForecastRoute -> "Error generating forecast"
      [] route = PersonalizedRoute -> "Error fetching personalized insights"
      [] route = DashboardRoute -> "Error fetching dashboard data"
      [] route = PreferencesRoute -> "Error updating user preferences"

FailureDetail(route) ==
    CASE route = InsightRoute -> "Failed to generate insight"
      [] route = ForecastRoute -> "Failed to generate forecast"
      [] route = PersonalizedRoute -> "Failed to fetch personalized insights"
      [] route = DashboardRoute -> "Failed to fetch dashboard data"
      [] route = PreferencesRoute -> "Failed to update user preferences"

Response(status, body) == [status |-> status, body |-> body]
ErrorResponse(e) == Response(e.status, [detail |-> e.detail])

\* The outcome of a handler: the response and what it logged.
Outcome(resp, log) == [response |-> resp, logged |-> log]

ExceptHandler_Leaky(route, result) ==
    IF result.kind = "raise" /\ result.exc.class \in ExceptionSubclasses
    THEN Outcome(ErrorResponse(HTTPException(500, Str(result.exc))),
                 <<[prefix |-> LogPrefix(route), cause |-> Str(result.exc)]>>)
    ELSE Outcome(Response(200, result.value), <<>>)

\* try: <body> except Exception as e: ...   around the body's result.
ExceptHandler(route, result) ==
    IF result.kind = "raise" /\ result.exc.class \in ExceptionSubclasses
    THEN Outcome(ErrorResponse(HTTPException(500, FailureDetail(route))),
                 <<[prefix |-> LogPrefix(route), cause |-> Str(result.exc)]>>)
    ELSE Outcome(Response(200, result.value), <<>>)

\* ----------------------------------------------------------- Python values
\* `x or y` takes y when x is None or empty.
Falsy(v) == v \in {NULL, ""}

\* A nullable ARRAY column of a row.
NullArray == [isnull |-> TRUE, items |-> <<>>]
Array(items) == [isnull |-> FALSE, items |-> items]

\* datetime.isoformat() of a TIMESTAMP column; None has no such method.
isoformat(ts) ==
    IF ts = NULL
    THEN Raise(Error("AttributeError", "'NoneType' object has no attribute 'isoformat'"))
    ELSE Return([iso |-> ts])

\* float() of a numeric column; float(None) is a TypeError.
float(v) ==
    IF v = NULL
    THEN Raise(Error("TypeError", "float() argument must be a string or a number"))
    ELSE Return([float |-> v])

\* A required field the JSON body does not carry.
MISSING == "<missing>"

\* ------------------------------------------------------- generate_insight
InsightBodies ==
    [query : {MISSING, "revenue trends"}, user_role : {NULL, "", "executive"}]

InsightRowSet ==
    [insight_id : {"i1", "i2"},
     generated_insight : {NULL, "Revenue grows"},
     confidence_score : {"0.85"},
     business_impact_score : {"0.75"},
     generated_timestamp : {"t1"},
     source_ids : {NullArray, Array(<<"k1">>), Array(<<"k1", "k2">>)}]

InsightAnswers ==
    EngineErrors \cup {Rows(r) : r \in SeqsUpTo(InsightRowSet, MaxRows)}

\* InsightResponse(...): pydantic rejects None for a str or a List[str] field.
InsightResponse(row) ==
    IF row.insight_id = NULL \/ row.generated_insight = NULL \/ row.source_ids.isnull
    THEN Raise(Error("ValidationError", "validation error for InsightResponse"))
    ELSE Return([insight_id |-> row.insight_id,
                 content |-> row.generated_insight,
                 confidence_score |-> row.confidence_score,
                 business_impact_score |-> row.business_impact_score,
                 generated_timestamp |-> row.generated_timestamp,
                 sources |-> row.source_ids.items])

InsightCall(body, current_user) ==
    Call(Sql("insight", <<>>),
         [query_text |-> body.query,
          user_role |-> IF Falsy(body.user_role) THEN current_user.role
                        ELSE body.user_role])

generate_insight_try_LastRow(body, current_user, ans) ==
    [calls |-> <<InsightCall(body, current_user)>>,
     result |->
        IF ans.kind = "error" THEN Raise(Error("GoogleAPIError", ans.cause))
        ELSE IF ans.rows # <<>> THEN InsightResponse(ans.rows[Len(ans.rows)])
        ELSE Raise(HTTPException(404, "No relevant insights found"))]

\* The body of the try block: the call, then `for row in results: return
\* InsightResponse(...)`, then the raise of the 404 after the loop.
generate_insight_try(body, current_user, ans) ==
    [calls |-> <<InsightCall(body, current_user)>>,
     result |->
        IF ans.kind = "error" THEN Raise(Error("GoogleAPIError", ans.cause))
        ELSE IF ans.rows # <<>> THEN InsightResponse(Head(ans.rows))
        ELSE Raise(HTTPException(404, "No relevant insights found"))]

\* ------------------------------------------------------ generate_forecast
ForecastBodies ==
    [metric_name : {MISSING, "revenue"}, horizon_days : {7, 30},
     confidence_level : {"0.95"}]

ForecastRowSet ==
    [forecast_timestamp : {NULL, "t1", "t2"},
     forecast_value : {NULL, "100"},
     confidence_level_lower : {"95"},
     confidence_level_upper : {"105"},
     recommendations : {NULL, "Invest"}]

ForecastAnswers ==
    EngineErrors \cup {Rows(r) : r \in SeqsUpTo(ForecastRowSet, MaxRows)}

ForecastCall(body) ==
    Call(Sql("forecast", <<body.metric_name, body.horizon_days, body.confidence_level>>),
         [metric_name |-> body.metric_name])

RECURSIVE ForecastLoop_IntervalsReversed(_, _, _, _, _)
ForecastLoop_IntervalsReversed(rows, i, forecast_values, confidence_intervals, recommendations) ==
    IF i > Len(rows)
    THEN Return([forecast_values |-> forecast_values,
                 confidence_intervals |-> confidence_intervals,
                 recommendations |-> recommendations])
    ELSE LET row == rows[i]
             ts == isoformat(row.forecast_timestamp)
             value == float(row.forecast_value)
         IN  IF ts.kind = "raise" THEN ts
             ELSE IF value.kind = "raise" THEN value
             ELSE ForecastLoop_IntervalsReversed(rows, i + 1,
                     Append(forecast_values,
                            [timestamp |-> ts.value, value |-> value.value]),
                     <<[timestamp |-> ts.value,
                        lower |-> [float |-> row.confidence_level_lower],
                        upper |-> [float |-> row.confidence_level_upper]]>>
                        \o confidence_intervals,
                     row.recommendations)

\* One pass of `for row in results:` over rows[i..], with the lists built so far.
RECURSIVE ForecastLoop(_, _, _, _, _)
ForecastLoop(rows, i, forecast_values, confidence_intervals, recommendations) ==
    IF i > Len(rows)
    THEN Return([forecast_values |-> forecast_values,
                 confidence_intervals |-> confidence_intervals,
                 recommendations |-> recommendations])
    ELSE LET row == rows[i]
             ts == isoformat(row.forecast_timestamp)
             value == float(row.forecast_value)
             lower == float(row.confidence_level_lower)
             upper == float(row.confidence_level_upper)
         IN  IF ts.kind = "raise" THEN ts
             ELSE IF value.kind = "raise" THEN value
             ELSE IF lower.kind = "raise" THEN lower
             ELSE IF upper.kind = "raise" THEN upper
             ELSE ForecastLoop(rows, i + 1,
                     Append(forecast_values,
                            [timestamp |-> ts.value, value |-> value.value]),
                     Append(confidence_intervals,
                            [timestamp |-> ts.value, lower |-> lower.value,
                             upper |-> upper.value]),
                     row.recommendations)

\* ForecastResponse(...): strategic_recommendations is a str, None is rejected.
ForecastResponse(metric_name, lists) ==
    IF lists.recommendations = NULL
    THEN Raise(Error("ValidationError", "validation error for ForecastResponse"))
    ELSE Return([metric_name |-> metric_name,
                 forecast_values |-> lists.forecast_values,
                 confidence_intervals |-> lists.confidence_intervals,
                 strategic_recommendations |-> lists.recommendations])

generate_forecast_try_TwoCalls(body, current_user, ans) ==
    [calls |-> <<ForecastCall(body),
                 Call(Sql("strategic_analysis", <<>>), [metric_name |-> body.metric_name])>>,
     result |->
        IF ans.kind = "error" THEN Raise(Error("GoogleAPIError", ans.cause))
        ELSE LET lists == ForecastLoop(ans.rows, 1, <<>>, <<>>, "")
             IN  IF lists.kind = "raise" THEN lists
                 ELSE ForecastResponse(body.metric_name, lists.value)]

\* The body of the try block: one client.query with the whole statement (the
\* forecast and the strategic analysis are CTEs of it), the loop, the response.
generate_forecast_try(body, current_user, ans) ==
    [calls |-> <<ForecastCall(body)>>,
     result |->
        IF ans.kind = "error" THEN Raise(Error("GoogleAPIError", ans.cause))
        ELSE LET lists == ForecastLoop(ans.rows, 1, <<>>, <<>>, "")
             IN  IF lists.kind = "raise" THEN lists
                 ELSE ForecastResponse(body.metric_name, lists.value)]

\* ----------------------------------------------- get_personalized_insights
Limits == {1, 2}
PersonalizedQueries == [limit : Limits]

PersonalizedRowSet ==
    [insight_id : {"i1"},
     content : {"Churn is falling"},
     confidence_score : {"0.9"},
     business_impact_score : {1, 2},
     relevance_score : {1, 2},
     generated_timestamp : {NULL, "t1"}]

\* The rows of generated_insights that pass the WHERE clause of the query.
PersonalizedTables == SeqsUpTo(PersonalizedRowSet, MaxRows)

\* ORDER BY relevance_score DESC, business_impact_score DESC: row a may
\* stand before row b.
OrderedBefore(a, b) ==
    \/ a.relevance_score > b.relevance_score
    \/ /\ a.relevance_score = b.relevance_score
       /\ a.business_impact_score >= b.business_impact_score

\* The orders the engine may return the rows in: every arrangement of them
\* that follows the ORDER BY clause (rows that tie come in any order).
OrderBy(table) ==
    LET n == Len(table)
        arrangements == {f \in [1..n -> 1..n] : \A i, j \in 1..n : i # j => f[i] # f[j]}
    IN  {rows \in {[i \in 1..n |-> table[f[i]]] : f \in arrangements} :
            \A i \in 1..(n - 1) : OrderedBefore(rows[i], rows[i + 1])}

\* LIMIT @limit_count
Limit(rows, limit_count) ==
    IF Len(rows) <= limit_count THEN rows ELSE SubSeq(rows, 1, limit_count)

\* What the engine may answer to the query with the limit of the request.
PersonalizedAnswers(query) ==
    EngineErrors \cup
    {Rows(Limit(rows, query.limit)) :
        rows \in UNION {OrderBy(table) : table \in PersonalizedTables}}

PersonalizedCall(query, current_user) ==
    Call(Sql("personalized", <<>>),
         [user_role |-> current_user.role, limit_count |-> query.limit])

RECURSIVE PersonalizedLoop_Prepends(_, _, _)
PersonalizedLoop_Prepends(rows, i, insights) ==
    IF i > Len(rows) THEN Return(insights)
    ELSE LET row == rows[i]
             ts == isoformat(row.generated_timestamp)
         IN  IF ts.kind = "raise" THEN ts
             ELSE PersonalizedLoop_Prepends(rows, i + 1,
                     <<[insight_id |-> row.insight_id,
                        content |-> row.content,
                        confidence_score |-> row.confidence_score,
                        business_impact_score |-> row.business_impact_score,
                        relevance_score |-> row.relevance_score,
                        generated_timestamp |-> ts.value]>> \o insights)

\* `for row in results: insights.append({...})` over rows[i..].
RECURSIVE PersonalizedLoop(_, _, _)
PersonalizedLoop(rows, i, insights) ==
    IF i > Len(rows) THEN Return(insights)
    ELSE LET row == rows[i]
             ts == isoformat(row.generated_timestamp)
         IN  IF ts.kind = "raise" THEN ts
             ELSE PersonalizedLoop(rows, i + 1,
                     Append(insights,
                            [insight_id |-> row.insight_id,
                             content |-> row.content,
                             confidence_score |-> row.confidence_score,
                             business_impact_score |-> row.business_impact_score,
                             relevance_score |-> row.relevance_score,
                             generated_timestamp |-> ts.value]))

get_personalized_insights_try(query, current_user, ans) ==
    [calls |-> <<PersonalizedCall(query, current_user)>>,
     result |->
        IF ans.kind = "error" THEN Raise(Error("GoogleAPIError", ans.cause))
        ELSE LET insights == PersonalizedLoop(ans.rows, 1, <<>>)
             IN  IF insights.kind = "raise" THEN insights
                 ELSE Return([insights |-> insights.value,
                              total_count |-> Len(insights.value)])]

\* ------------------------------------------------------ get_dashboard_data
\* The JSON texts the engine may put in the `data` column, and json.loads of
\* each: the decoded list, or the exception.
MetricsJson == "[{metric_name: total_insights, metric_value: 3}]"
InsightsJson == "[{insight_id: i1, business_impact_score: 0.9}]"
BadJson == "[{metric_name"

json_loads(text) ==
    CASE text = NULL ->
            Raise(Error("TypeError", "the JSON object must be str, bytes or bytearray"))
      [] text = MetricsJson ->
            Return(<<[metric_name |-> "total_insights", metric_value |-> 3]>>)
      [] text = InsightsJson ->
            Return(<<[insight_id |-> "i1", business_impact_score |-> "0.9"]>>)
      [] OTHER ->
            Raise(Error("JSONDecodeError", "Expecting ':' delimiter"))

DashboardRowSet ==
    [data_type : {"metrics", "recent_insights"},
     data : {NULL, MetricsJson, InsightsJson, BadJson}]

DashboardAnswers ==
    EngineErrors \cup {Rows(r) : r \in SeqsUpTo(DashboardRowSet, MaxRows)}

DashboardCall == Call(Sql("dashboard", <<>>), <<>>)

\* d[key] = value on a dict
SetItem(d, key, value) ==
    [k \in DOMAIN d \cup {key} |-> IF k = key THEN value ELSE d[k]]

EmptyDict == [k \in {} |-> NULL]

RECURSIVE DashboardLoop_FirstWins(_, _, _)
DashboardLoop_FirstWins(rows, i, dashboard_data) ==
    IF i > Len(rows) THEN Return(dashboard_data)
    ELSE LET row == rows[i]
             decoded == json_loads(row.data)
         IN  IF decoded.kind = "raise" THEN decoded
             ELSE DashboardLoop_FirstWins(rows, i + 1,
                    IF row.data_type \in DOMAIN dashboard_data THEN dashboard_data
                    ELSE SetItem(dashboard_data, row.data_type, decoded.value))

\* `for row in results: dashboard_data[row.data_type] = json.loads(row.data)`
RECURSIVE DashboardLoop(_, _, _)
DashboardLoop(rows, i, dashboard_data) ==
    IF i > Len(rows) THEN Return(dashboard_data)
    ELSE LET row == rows[i]
             decoded == json_loads(row.data)
         IN  IF decoded.kind = "raise" THEN decoded
             ELSE DashboardLoop(rows, i + 1,
                                SetItem(dashboard_data, row.data_type, decoded.value))

get_dashboard_data_try(query, current_user, ans) ==
    [calls |-> <<DashboardCall>>,
     result |->
        IF ans.kind = "error" THEN Raise(Error("GoogleAPIError", ans.cause))
        ELSE DashboardLoop(ans.rows, 1, EmptyDict)]

\* ------------------------------------------------- update_user_preferences
\* The fields of UserPreferences; none has a default.
PreferencesFields ==
    {"user_id", "role", "departments", "notification_preferences", "priority_topics"}

CompletePreferences ==
    [user_id : {"demo_user", "someone_else"},
     role : {"analyst"},
     departments : {<<"sales">>},
     notification_preferences : {[email |-> TRUE]},
     priority_topics : {<<"revenue">>}]

\* The JSON bodies sent: a complete one, or one that lacks some fields.
PreferencesBodies ==
    {[f \in sent |-> complete[f]] :
        complete \in CompletePreferences, sent \in SUBSET PreferencesFields}

\* An INSERT returns no rows.
PreferencesAnswers == EngineErrors \cup {Rows(<<>>)}

json_dumps(value) == [json |-> value]

PreferencesCall_CallerId(preferences) ==
    Call(Sql("insert_preferences", <<>>),
         [user_id |-> DemoUser.user_id,
          role |-> preferences.role,
          departments |-> preferences.departments,
          notification_preferences |-> json_dumps(preferences.notification_preferences),
          priority_topics |-> preferences.priority_topics])

PreferencesCall(preferences) ==
    Call(Sql("insert_preferences", <<>>),
         [user_id |-> preferences.user_id,
          role |-> preferences.role,
          departments |-> preferences.departments,
          notification_preferences |-> json_dumps(preferences.notification_preferences),
          priority_topics |-> preferences.priority_topics])

\* What the engine does with the statement: INSERT INTO ... VALUES (...) adds
\* one row with the bound values (and the time of the insert, left out).
Insert_Upsert(table, values) ==
    IF \E i \in 1..Len(table) : table[i].user_id = values.user_id
    THEN [i \in 1..Len(table) |->
            IF table[i].user_id = values.user_id THEN values ELSE table[i]]
    ELSE Append(table, values)

Insert(table, values) ==
    Append(table, values)

\* The table after the engine has answered the calls of a handler: a call
\* that failed changed nothing, and only the INSERT writes.
Execute(table, made, ans) ==
    IF ans.kind = "rows" /\ made # <<>> /\ made[1].sql.template = "insert_preferences"
    THEN Insert(table, made[1].params)
    ELSE table

update_user_preferences_try(preferences, current_user, ans) ==
    [calls |-> <<PreferencesCall(preferences)>>,
     result |->
        IF ans.kind = "error" THEN Raise(Error("GoogleAPIError", ans.cause))
        ELSE Return([message |-> "User preferences updated successfully"])]

\* --------------------------------------------------- serving one request
Request(route, authorization, body) ==
    [route |-> route, authorization |-> authorization, body |-> body]

NoRequest == [route |-> "none"]
NoResponse == [status |-> 0]

\* The pydantic model of the body: a required field (Field(...), or a field
\* without default) must be present.
ValidBody_OptionalQuery(route, body) ==
    CASE route = InsightRoute -> TRUE
      [] route = ForecastRoute -> body.metric_name # MISSING
      [] route = PreferencesRoute -> PreferencesFields \subseteq DOMAIN body
      [] OTHER -> TRUE

ValidBody(route, body) ==
    CASE route = InsightRoute -> body.query # MISSING
      [] route = ForecastRoute -> body.metric_name # MISSING
      [] route = PreferencesRoute -> PreferencesFields \subseteq DOMAIN body
      [] OTHER -> TRUE

ValidationErrorResponse == Response(422, [detail |-> "field required"])

\* The try block of the route's handler.
TryBody(route, body, current_user, ans) ==
    CASE route = InsightRoute -> generate_insight_try(body, current_user, ans)
      [] route = ForecastRoute -> generate_forecast_try(body, current_user, ans)
      [] route = PersonalizedRoute -> get_personalized_insights_try(body, current_user, ans)
      [] route = DashboardRoute -> get_dashboard_data_try(body, current_user, ans)
      [] route = PreferencesRoute -> update_user_preferences_try(body, current_user, ans)

\* The outcomes the dependencies of a request may have, over the behaviours
\* of the bearer scheme.
Dependencies(authorization) ==
    {ResolveDependencies(authorization, lib) : lib \in BearerBehaviours}

\* One request to an authenticated route, as FastAPI runs it: the dependencies
\* first (an HTTPException of theirs is the response), then the validation of
\* the body, then the handler with its try/except around the engine's answer.
\* `dep` is the outcome of the dependencies; no call is made, and `ans` is not
\* looked at, unless the handler runs.
ServeOutcome(route, body, dep, ans) ==
    IF dep.kind = "raise"
    THEN [response |-> ErrorResponse(dep.exc), calls |-> <<>>, logged |-> <<>>,
          answer |-> NoAnswer]
    ELSE IF ~ValidBody(route, body)
    THEN [response |-> ValidationErrorResponse, calls |-> <<>>, logged |-> <<>>,
          answer |-> NoAnswer]
    ELSE LET try == TryBody(route, body, dep.value, ans)
             out == ExceptHandler(route, try.result)
         IN  [response |-> out.response, calls |-> try.calls, logged |-> out.logged,
              answer |-> ans]

\* The request is served with one of the outcomes the dependencies may have
\* and, when the handler runs, one of the answers the engine may give.
Serve(route, authorization, body, answers) ==
    /\ request' = Request(route, authorization, body)
    /\ \E dep \in Dependencies(authorization) :
          \E ans \in (IF dep.kind = "raise" \/ ~ValidBody(route, body)
                      THEN {NoAnswer} ELSE answers) :
              LET out == ServeOutcome(route, body, dep, ans)
              IN  /\ response' = out.response
                  /\ logged' = out.logged
                  /\ calls' = out.calls
                  /\ answer' = out.answer
                  /\ user_preferences' = Execute(user_preferences, out.calls, ans)
    /\ UNCHANGED <<project, inflight, patcherVars>>

root_Authenticated ==
    /\ request = NoRequest
    /\ \E authorization \in Credentials :
        /\ request' = Request(RootRoute, authorization, <<>>)
        /\ response' = IF authorization \in Tokens
                       THEN Response(200, [message |-> "Enterprise Knowledge Intelligence API",
                                           status |-> "active"])
                       ELSE ErrorResponse(HTTPException(403, "Not authenticated"))
        /\ calls' = <<>>
        /\ logged' = <<>>
        /\ answer' = NoAnswer
        /\ UNCHANGED <<project, user_preferences, inflight, patcherVars>>

\* GET /: no dependency, no body, no try block.
root ==
    /\ request = NoRequest
    /\ \E authorization \in Credentials :
        /\ request' = Request(RootRoute, authorization, <<>>)
        /\ response' = Response(200, [message |-> "Enterprise Knowledge Intelligence API",
                                      status |-> "active"])
        /\ calls' = <<>>
        /\ logged' = <<>>
        /\ answer' = NoAnswer
        /\ UNCHANGED <<project, user_preferences, inflight, patcherVars>>

generate_insight ==
    /\ request = NoRequest
    /\ \E authorization \in Credentials, body \in InsightBodies :
        Serve(InsightRoute, authorization, body, InsightAnswers)

generate_forecast ==
    /\ request = NoRequest
    /\ \E authorization \in Credentials, body \in ForecastBodies :
        Serve(ForecastRoute, authorization, body, ForecastAnswers)

get_personalized_insights ==
    /\ request = NoRequest
    /\ \E authorization \in Credentials, query \in PersonalizedQueries :
        Serve(PersonalizedRoute, authorization, query, PersonalizedAnswers(query))

get_dashboard_data ==
    /\ request = NoRequest
    /\ \E authorization \in Credentials :
        Serve(DashboardRoute, authorization, <<>>, DashboardAnswers)

update_user_preferences ==
    /\ request = NoRequest
    /\ Len(user_preferences) < MaxSubmissions
    /\ \E authorization \in Credentials, preferences \in PreferencesBodies :
        Serve(PreferencesRoute, authorization, preferences, PreferencesAnswers)

\* ====================================================================
\* Notebook patchers (src/final_fix.py, src/fix_sql_syntax.py,
\* src/update_to_public_data.py, src/fix_ai_generate.py)
\* ====================================================================

\* ------------------------------------------------------------------ text
\* Text is a sequence of fragments.  A cell's source is a list of lines, a
\* line is a sequence of fragments, and ''.join(cell['source']) is their
\* concatenation.  The line terminators are left out of the fragments.
RECURSIVE Join(_)
Join(lines) ==
    IF lines = <<>> THEN <<>> ELSE Head(lines) \o Join(Tail(lines))

\* The backquote character, which a string of this module cannot hold.
BACKTICK == "<backquote>"

\* The substrings the scripts look for that a fragment contains besides the
\* fragment itself.
Substrings(fragment) ==
    {fragment} \cup
    CASE fragment = "AI.GENERATE(" -> {"AI.GENERATE"}
      [] fragment = "AI.GENERATE_DOUBLE(" -> {"AI.GENERATE"}
      [] fragment = "AI.GENERATE_BOOL(" -> {"AI.GENERATE"}
      [] fragment = "dataset_id = 'enterprise_knowledge_ai'" ->
            {"dataset_id = ", "enterprise_knowledge_ai"}
      [] fragment = "dataset_id = 'samples'  # Using samples dataset" ->
            {"dataset_id = "}
      [] fragment = "dataset_id = 'demo'" -> {"dataset_id = "}
      [] fragment = "# uses the enterprise_knowledge_ai dataset" ->
            {"enterprise_knowledge_ai"}
      [] fragment = "project_id = 'your-bigquery-project-id'" ->
            {"your-bigquery-project-id"}
      [] fragment = "demo_query = f\"\"\"" -> {"demo_query"}
      [] fragment = "results_df = client.query(demo_query).to_dataframe()" ->
            {"demo_query"}
      [] fragment = "generate_insights_query = f\"\"\"" -> {"generate_insights_query"}
      [] fragment = "{project_id}.{dataset_id}.enterprise_documents" ->
            {"enterprise_documents"}
      [] OTHER -> {}

\* Python's `needle in text`
In(needle, text) ==
    \E i \in 1..Len(text) : needle \in Substrings(text[i])

\* -------------------------------------------------------------- templates
\* The new_source lists of the scripts.  Each keeps the lines of the list
\* that carry a substring some script looks for and the lines that tell the
\* templates apart; the other lines are left out.
FinalFixTemplate ==
    << <<"# Setup and Configuration">>,
       <<"import pandas as pd">>,
       <<"client = bigquery.Client(credentials=credentials, project=credentials.project_id)">>,
       <<"dataset_id = 'enterprise_knowledge_ai'">>,
       <<"print(\"BigQuery AI implementation ready!\")">> >>

FixSqlTemplate ==
    << <<"# Simplified demo query (AI functions replaced with simulated results)">>,
       <<"demo_query = f\"\"\"">>,
       <<"FROM ", BACKTICK, "{project_id}.{dataset_id}.enterprise_documents", BACKTICK>>,
       <<"results_df = client.query(demo_query).to_dataframe()">> >>

PublicSetupTemplate ==
    << <<"# Setup and Configuration">>,
       <<"import pandas as pd">>,
       <<"client = bigquery.Client(credentials=credentials, project=credentials.project_id)">>,
       <<"public_project = 'bigquery-public-data'">>,
       <<"dataset_id = 'samples'  # Using samples dataset">>,
       <<"public_client = bigquery.Client(project=public_project)">> >>

PublicDataTemplate ==
    << <<"# Explore real BigQuery public datasets">>,
       <<"wikipedia_query = f\"\"\"">>,
       <<"FROM ", BACKTICK, "bigquery-public-data.samples.wikipedia", BACKTICK>>,
       <<"wiki_df = client.query(wikipedia_query).to_dataframe()">> >>

PublicAnalysisTemplate ==
    << <<"# Real AI Analysis on Wikipedia Data">>,
       <<"analysis_query = f\"\"\"">>,
       <<"  FROM ", BACKTICK, "bigquery-public-data.samples.wikipedia", BACKTICK>>,
       <<"results_df = client.query(analysis_query).to_dataframe()">> >>

\* --------------------------------------------------------------- triggers
FinalFixTrigger_NoPandas(source_text) ==
    \/ In("client = bigquery.Client()", source_text)
    \/ In("your-bigquery-project-id", source_text)

FinalFixTrigger(source_text) ==
    \/ In("client = bigquery.Client()", source_text)
    \/ In("your-bigquery-project-id", source_text)
    \/ In("import pandas as pd", source_text)

FixSqlTrigger_AlsoPandas(source_text) ==
    \/ In("bigquery-public-data.ml_datasets.gemini_pro", source_text)
    \/ In("AI.GENERATE(", source_text)
    \/ In("ML.GENERATE_EMBEDDING(", source_text)
    \/ (In("generate_insights_query", source_text) /\ In("AI.GENERATE", source_text))
    \/ In("import pandas as pd", source_text)

FixSqlTrigger(source_text) ==
    \/ In("bigquery-public-data.ml_datasets.gemini_pro", source_text)
    \/ In("AI.GENERATE(", source_text)
    \/ In("ML.GENERATE_EMBEDDING(", source_text)
    \/ (In("generate_insights_query", source_text) /\ In("AI.GENERATE", source_text))

SetupTrigger_NeedsPlaceholder(source_text) ==
    /\ In("dataset_id = ", source_text)
    /\ In("enterprise_knowledge_ai", source_text)
    /\ In("your-bigquery-project-id", source_text)

SetupTrigger(source_text) ==
    In("dataset_id = ", source_text) /\ In("enterprise_knowledge_ai", source_text)

DataTrigger(source_text) ==
    In("CREATE OR REPLACE TABLE", source_text) /\ In("enterprise_documents", source_text)

AnalysisTrigger(source_text) ==
    In("demo_query", source_text) \/ In("generate_insights_query", source_text)

\* ------------------------------------------------------- the notebook file
\* The stored file: whether its text is a valid JSON document, the
\* indentation of its serialization, and its cells.  A cell has a kind, a
\* source (a list of lines) unless the key is absent, and outputs (lines).
Cell(cell_type, has_source, source, outputs) ==
    [cell_type |-> cell_type, has_source |-> has_source, source |-> source,
     outputs |-> outputs]

File(wellformed, indent, cells) ==
    [wellformed |-> wellformed, indent |-> indent, cells |-> cells]

\* json.load(f): the parsed document, or the decoder's error.
json_load(f) ==
    IF f.wellformed THEN Return([cells |-> f.cells])
    ELSE Raise(Error("JSONDecodeError", "Expecting value"))

json_dump_CodeCellsOnly(notebook) ==
    File(TRUE, 1, SelectSeq(notebook.cells, LAMBDA cell : cell.cell_type = "code"))

\* json.dump(notebook, f, indent=1, ensure_ascii=False) into the file opened
\* with 'w'.
json_dump(notebook) ==
    File(TRUE, 1, notebook.cells)

\* ------------------------------------------------------ the three scripts
JsonPatchers == {"final_fix", "fix_sql_syntax", "update_to_public_data"}
Patchers == JsonPatchers \cup {"fix_ai_generate"}

\* The if / elif / elif chain of update_to_public_data.
UpdateCategory_AnalysisFirst(source_text) ==
    IF AnalysisTrigger(source_text) THEN "analysis"
    ELSE IF SetupTrigger(source_text) THEN "setup"
    ELSE IF DataTrigger(source_text) THEN "data"
    ELSE "none"

UpdateCategory(source_text) ==
    IF SetupTrigger(source_text) THEN "setup"
    ELSE IF DataTrigger(source_text) THEN "data"
    ELSE IF AnalysisTrigger(source_text) THEN "analysis"
    ELSE "none"

\* The trigger category of a script that a source text falls in.
Category(script, source_text) ==
    CASE script = "final_fix" ->
            IF FinalFixTrigger(source_text) THEN "bigquery_setup" ELSE "none"
      [] script = "fix_sql_syntax" ->
            IF FixSqlTrigger(source_text) THEN "ai_generate" ELSE "none"
      [] script = "update_to_public_data" -> UpdateCategory(source_text)

Template_DataIsDemoQuery(category) ==
    CASE category = "bigquery_setup" -> FinalFixTemplate
      [] category = "ai_generate" -> FixSqlTemplate
      [] category = "setup" -> PublicSetupTemplate
      [] category = "data" -> FixSqlTemplate
      [] category = "analysis" -> PublicAnalysisTemplate

\* The new_source of a trigger category.
Template(category) ==
    CASE category = "bigquery_setup" -> FinalFixTemplate
      [] category = "ai_generate" -> FixSqlTemplate
      [] category = "setup" -> PublicSetupTemplate
      [] category = "data" -> PublicDataTemplate
      [] category = "analysis" -> PublicAnalysisTemplate

\* if cell['cell_type'] == 'code' and 'source' in cell:
Examined(cell) == cell.cell_type = "code" /\ cell.has_source

\* cell['source'] = new_source, on a cell of the category
Replace_FirstLineOnly(cell, category) ==
    [cell EXCEPT !.source = <<Head(Template(category))>> \o
                            (IF cell.source = <<>> THEN <<>> ELSE Tail(cell.source))]

Replace_ClearsOutputs(cell, category) ==
    [cell EXCEPT !.source = Template(category), !.outputs = <<>>]

Replace(cell, category) ==
    [cell EXCEPT !.source = Template(category)]

\* The body of `for i, cell in enumerate(notebook['cells'])` for one cell:
\* the cell afterwards, and whether it was replaced.
PatchCell_AnyKind(script, cell) ==
    LET category == IF cell.has_source THEN Category(script, Join(cell.source))
                    ELSE "none"
    IN  IF category = "none" THEN [cell |-> cell, fixed |-> 0]
        ELSE [cell |-> Replace(cell, category), fixed |-> 1]

PatchCell(script, cell) ==
    LET category == IF Examined(cell) THEN Category(script, Join(cell.source))
                    ELSE "none"
    IN  IF category = "none" THEN [cell |-> cell, fixed |-> 0]
        ELSE [cell |-> Replace(cell, category), fixed |-> 1]

\* The loop over the cells from cell i on, with the count so far.
RECURSIVE PatchLoop(_, _, _, _)
PatchLoop(script, cells, i, fixed_count) ==
    IF i > Len(cells) THEN [cells |-> cells, fixed_count |-> fixed_count]
    ELSE LET p == PatchCell(script, cells[i])
         IN  PatchLoop(script, [cells EXCEPT ![i] = p.cell], i + 1,
                       fixed_count + p.fixed)

\* What the script prints at its end: final_fix and fix_sql_syntax print
\* fixed_count, update_to_public_data keeps no count.
Printed(script, fixed_count) ==
    IF script \in {"final_fix", "fix_sql_syntax"} THEN <<fixed_count>> ELSE <<>>

\* -------------------------------------------------------- fix_ai_generate
\* The fragments the regular expressions of fix_ai_generate tell apart:
\* white space (\s), the text "MODEL " followed by a backquote, and a lone
\* backquote.  No other fragment holds a backquote.
WS == " "
MODEL_OPEN == "MODEL <backquote>"

RECURSIVE SkipWs(_, _)
SkipWs(line, j) ==
    IF j <= Len(line) /\ line[j] = WS THEN SkipWs(line, j + 1) ELSE j

\* The position of the first fragment from j on that holds a backquote, or
\* Len(line) + 1.
RECURSIVE NextBackquote(_, _)
NextBackquote(line, j) ==
    IF j > Len(line) \/ line[j] \in {BACKTICK, MODEL_OPEN} THEN j
    ELSE NextBackquote(line, j + 1)

\* re.sub(head \s* MODEL `([^`]+)`, head \1, line) from fragment i on: every
\* non-overlapping match, left to right.
RECURSIVE ReSub(_, _, _)
ReSub(head, line, i) ==
    IF i > Len(line) THEN <<>>
    ELSE LET k == SkipWs(line, i + 1)
             m == NextBackquote(line, k + 1)
             opens == line[i] = head /\ k <= Len(line) /\ line[k] = MODEL_OPEN
         IN  IF opens /\ m <= Len(line) /\ line[m] = BACKTICK /\ m > k + 1
             THEN <<head>> \o SubSeq(line, k + 1, m - 1) \o ReSub(head, line, m + 1)
             ELSE IF opens /\ m <= Len(line) /\ line[m] = MODEL_OPEN
             THEN <<head>> \o SubSeq(line, k + 1, m - 1) \o <<"MODEL ">>
                  \o ReSub(head, line, m + 1)
             ELSE <<line[i]>> \o ReSub(head, line, i + 1)

\* The four re.sub calls, in order.  The first replaces the text
\* MODEL `bigquery-public-data.ml_datasets.gemini_pro` by itself.
FixLine(line) ==
    ReSub("AI.GENERATE_BOOL(",
          ReSub("AI.GENERATE_DOUBLE(",
                ReSub("AI.GENERATE(", line, 1), 1), 1)

FixLines(lines) == [i \in 1..Len(lines) |-> FixLine(lines[i])]

\* The substitutions run over the whole text of the file: the source and the
\* outputs of every cell, whatever its kind.
FixCellText(cell) ==
    [cell EXCEPT !.source = FixLines(cell.source), !.outputs = FixLines(cell.outputs)]

FixContent(f) ==
    [f EXCEPT !.cells = [i \in 1..Len(f.cells) |-> FixCellText(f.cells[i])]]

\* ------------------------------------------------------------ the runs
Run(script, outcome, printed) ==
    [script |-> script, outcome |-> outcome, printed |-> printed]

NoRun == Run("none", "none", <<>>)

\* A run of final_fix, fix_sql_syntax or update_to_public_data on the file
\* read: json.load, the loop over the cells, then open(..., 'w') and
\* json.dump.  An exception of json.load ends the script before the file is
\* opened for writing.
RunJsonPatcher(script, read) ==
    LET notebook == json_load(read)
    IN  /\ before' = read
        /\ IF notebook.kind = "raise"
           THEN /\ file' = read
                /\ lastRun' = Run(script, notebook.exc.class, <<>>)
           ELSE LET done == PatchLoop(script, notebook.value.cells, 1, 0)
                IN  /\ file' = json_dump([cells |-> done.cells])
                    /\ lastRun' = Run(script, "written", Printed(script, done.fixed_count))
        /\ UNCHANGED apiVars

final_fix ==
    \E read \in {file} : RunJsonPatcher("final_fix", read)

fix_sql_syntax ==
    \E read \in {file} : RunJsonPatcher("fix_sql_syntax", read)

update_to_public_data ==
    \E read \in {file} : RunJsonPatcher("update_to_public_data", read)

\* fix_ai_generate: f.read(), the re.sub calls, then open(..., 'w') and
\* f.write(content).  The text is never parsed.
fix_ai_generate ==
    /\ before' = file
    /\ file' = FixContent(file)
    /\ lastRun' = Run("fix_ai_generate", "written", <<>>)
    /\ UNCHANGED apiVars

\* The response has gone out: the request and everything the handler held for
\* it are dropped, and the server takes the next request.
request_done ==
    /\ request # NoRequest
    /\ request' = NoRequest
    /\ answer' = NoAnswer
    /\ calls' = <<>>
    /\ logged' = <<>>
    /\ response' = NoResponse
    /\ UNCHANGED <<project, user_preferences, inflight, patcherVars>>

\* ------------------------------------------- requests served concurrently
\* The server takes a request while others are being served.  Each request
\* has its own frame: its stage and the values local to its coroutine.  The
\* coroutine of a request may be suspended between its stages (at least
\* wherever the event loop can suspend it), and the others run meanwhile.
Slots == 1..MaxInFlight

IdleFrame == [stage |-> "idle"]

\* The requests, and the engine's answers, of the concurrent runs.
ConcurrentCredentials(route) ==
    IF route = InsightRoute THEN {EmptyToken, "demo-token"} ELSE {"demo-token"}

ConcurrentBodies(route) ==
    CASE route = InsightRoute ->
            {b \in InsightBodies : b.query # MISSING /\ b.user_role # ""}
      [] route = ForecastRoute -> {b \in ForecastBodies : b.horizon_days = 7}
      [] route = PersonalizedRoute -> {q \in PersonalizedQueries : q.limit = 1}
      [] route = DashboardRoute -> {<<>>}
      [] route = PreferencesRoute ->
            {b \in CompletePreferences : b.user_id = "demo_user"}

\* An engine error, no row, or one row that the handler can map.
ConcurrentAnswers(route) ==
    {Failed("Connection reset by peer"), Rows(<<>>)} \cup
    CASE route = InsightRoute ->
            {Rows(<<[insight_id |-> "i1", generated_insight |-> "Revenue grows",
                     confidence_score |-> "0.85", business_impact_score |-> "0.75",
                     generated_timestamp |-> "t1", source_ids |-> Array(<<"k1">>)]>>)}
      [] route = ForecastRoute ->
            {Rows(<<[forecast_timestamp |-> "t1", forecast_value |-> "100",
                     confidence_level_lower |-> "95", confidence_level_upper |-> "105",
                     recommendations |-> "Invest"]>>)}
      [] route = PersonalizedRoute ->
            {Rows(<<[insight_id |-> "i1", content |-> "Churn is falling",
                     confidence_score |-> "0.9", business_impact_score |-> 1,
                     relevance_score |-> 2, generated_timestamp |-> "t1"]>>)}
      [] route = DashboardRoute ->
            {Rows(<<[data_type |-> "metrics", data |-> MetricsJson]>>)}
      [] route = PreferencesRoute -> {}

\* The frame a coroutine reads its local values from.
Frame_Shared(s) ==
    IF inflight[1].stage = inflight[s].stage THEN inflight[1] ELSE inflight[s]

Frame(s) ==
    inflight[s]

Responded(req, out) ==
    [stage |-> "responded", request |-> req, answer |-> out.answer,
     calls |-> out.calls, logged |-> out.logged, response |-> out.response]

\* A request arrives while any number of others are in flight.
receive ==
    \E s \in Slots :
        /\ inflight[s].stage = "idle"
        /\ \E route \in AuthenticatedRoutes :
              \E authorization \in ConcurrentCredentials(route),
                 body \in ConcurrentBodies(route) :
                  inflight' = [inflight EXCEPT ![s] =
                                  [stage |-> "received",
                                   request |-> Request(route, authorization, body)]]
        /\ UNCHANGED <<project, request, answer, calls, logged, response,
                       user_preferences, patcherVars>>

\* The dependencies of the request and the validation of its body: the
\* request is answered at once, or the handler is ready to be called with
\* current_user.
solve_dependencies ==
    \E s \in Slots :
        /\ inflight[s].stage = "received"
        /\ LET req == Frame(s).request
           IN  \E dep \in Dependencies(req.authorization) :
                  inflight' = [inflight EXCEPT ![s] =
                      IF dep.kind = "raise"
                      THEN Responded(req, [response |-> ErrorResponse(dep.exc),
                                           calls |-> <<>>, logged |-> <<>>,
                                           answer |-> NoAnswer])
                      ELSE IF ~ValidBody(req.route, req.body)
                      THEN Responded(req, [response |-> ValidationErrorResponse,
                                           calls |-> <<>>, logged |-> <<>>,
                                           answer |-> NoAnswer])
                      ELSE [stage |-> "ready", request |-> req,
                            current_user |-> dep.value]]
        /\ UNCHANGED <<project, request, answer, calls, logged, response,
                       user_preferences, patcherVars>>

\* The handler of the request, from its first statement to its return or to
\* the raise of its except clause (it has no await).
call_handler ==
    \E s \in Slots :
        /\ inflight[s].stage = "ready"
        /\ LET frame == Frame(s)
               route == frame.request.route
           IN  /\ route = PreferencesRoute => Len(user_preferences) < MaxSubmissions
               /\ \E ans \in ConcurrentAnswers(route) :
                     LET try == TryBody(route, frame.request.body, frame.current_user, ans)
                         out == ExceptHandler(route, try.result)
                     IN  /\ inflight' = [inflight EXCEPT ![s] =
                                Responded(inflight[s].request,
                                          [response |-> out.response, calls |-> try.calls,
                                           logged |-> out.logged, answer |-> ans])]
                         /\ user_preferences' =
                                Execute(user_preferences, try.calls, ans)
        /\ UNCHANGED <<project, request, answer, calls, logged, response, patcherVars>>

\* The response has been sent: the frame is gone.
send_response ==
    \E s \in Slots :
        /\ inflight[s].stage = "responded"
        /\ inflight' = [inflight EXCEPT ![s] = IdleFrame]
        /\ UNCHANGED <<project, request, answer, calls, logged, response,
                       user_preferences, patcherVars>>

\* ------------------------------------------------------ notebooks to patch
MaxCells == 2

PlainSource ==
    << <<"print('hello')">> >>

ClientSource ==
    << <<"from google.cloud import bigquery">>,
       <<"client = bigquery.Client()">> >>

PandasGenerateSource ==
    << <<"import pandas as pd">>,
       <<"SELECT ", "AI.GENERATE(", WS, MODEL_OPEN,
         "bigquery-public-data.ml_datasets.gemini_pro", BACKTICK, ", prompt)">> >>

SetupAnalysisSource ==
    << <<"dataset_id = 'enterprise_knowledge_ai'">>,
       <<"demo_query = f\"\"\"">> >>

SplitSetupSource ==
    << <<"dataset_id = 'demo'">>,
       <<"# uses the enterprise_knowledge_ai dataset">> >>

CreateTableSource ==
    << <<"CREATE OR REPLACE TABLE", WS, BACKTICK,
         "{project_id}.{dataset_id}.enterprise_documents", BACKTICK>>,
       <<"generate_insights_query = f\"\"\"">>,
       <<"AI.GENERATE_DOUBLE(", MODEL_OPEN, "gemini_model", BACKTICK, ", prompt)">> >>

EmbeddingSource ==
    << <<"project_id = 'your-bigquery-project-id'">>,
       <<"ML.GENERATE_EMBEDDING(", MODEL_OPEN, "embedding_model", BACKTICK, ")">> >>

MarkdownSource ==
    << <<"Run ", "import pandas as pd", " then ", "AI.GENERATE(", MODEL_OPEN,
         "gemini_model", BACKTICK, " on the ", "demo_query">> >>

BoolOutput ==
    << <<"AI.GENERATE_BOOL(", WS, WS, MODEL_OPEN, "gemini_model", BACKTICK, ")">> >>

SampleCells ==
    {Cell("code", TRUE, PlainSource, <<>>),
     Cell("code", TRUE, ClientSource, BoolOutput),
     Cell("code", TRUE, PandasGenerateSource, <<>>),
     Cell("code", TRUE, SetupAnalysisSource, <<>>),
     Cell("code", TRUE, SplitSetupSource, <<>>),
     Cell("code", TRUE, CreateTableSource, <<>>),
     Cell("code", TRUE, EmbeddingSource, <<>>),
     Cell("code", FALSE, <<>>, <<>>),
     Cell("markdown", TRUE, MarkdownSource, <<>>)}

Indents == {1, 4}

Notebooks ==
    {File(w, n, c) : w \in BOOLEAN, n \in Indents, c \in SeqsUpTo(SampleCells, MaxCells)}

\* ------------------------------------------------------- specifications
ApiIdle ==
    /\ request = NoRequest
    /\ answer = NoAnswer
    /\ calls = <<>>
    /\ logged = <<>>
    /\ response = NoResponse
    /\ user_preferences = <<>>
    /\ inflight = [s \in Slots |-> IdleFrame]

PatcherIdle ==
    /\ before = file
    /\ lastRun = NoRun

\* The orchestrator after start-up, with no notebook at hand.
InitApi ==
    /\ project \in {NULL, "p1"}
    /\ ApiIdle
    /\ file = File(TRUE, 1, <<>>)
    /\ PatcherIdle

NextApi ==
    \/ root
    \/ generate_insight
    \/ generate_forecast
    \/ get_personalized_insights
    \/ get_dashboard_data
    \/ update_user_preferences
    \/ request_done

SpecApi == InitApi /\ [][NextApi]_vars

\* The orchestrator serving up to MaxInFlight requests at a time.
InitConcurrent ==
    /\ project = "p1"
    /\ ApiIdle
    /\ file = File(TRUE, 1, <<>>)
    /\ PatcherIdle

NextConcurrent ==
    \/ receive
    \/ solve_dependencies
    \/ call_handler
    \/ send_response

SpecConcurrent == InitConcurrent /\ [][NextConcurrent]_vars

\* The patcher scripts run, in any order and any number of times, on a
\* notebook file; the orchestrator is not running.
InitPatcher ==
    /\ project = NULL
    /\ ApiIdle
    /\ file \in Notebooks
    /\ PatcherIdle

NextPatcher ==
    \/ final_fix
    \/ fix_sql_syntax
    \/ update_to_public_data
    \/ fix_ai_generate

SpecPatcher == InitPatcher /\ [][NextPatcher]_vars

\* ====================================================================
\* Properties of the orchestrator (checked under SpecApi)
\* ====================================================================

\* The handler of the route ran for the request served last: the
\* dependencies and the validation let it through and it called the engine.
HandlerRan(route) ==
    request.route = route /\ answer # NoAnswer

\* C1: whenever the engine call of generate_insight succeeds and returns zero
\* rows, the caller receives 404 "No relevant insights found", never the
\* generic 500 and never a successful response.
C1_ZeroRowsIsNotFound ==
    (HandlerRan(InsightRoute) /\ answer.kind = "rows" /\ answer.rows = <<>>)
        => (response.status = 404
            /\ response.body = [detail |-> "No relevant insights found"])

\* The rows of the engine's answer cannot be mapped by the handler of the
\* route: a column the mapping converts or validates is NULL, or (dashboard)
\* the data column is not the text of a JSON document.
MappingFails(route) ==
    /\ answer.kind = "rows"
    /\ CASE route = InsightRoute ->
                /\ answer.rows # <<>>
                /\ \/ answer.rows[1].generated_insight = NULL
                   \/ answer.rows[1].source_ids.isnull
         [] route = ForecastRoute ->
                \/ \E i \in 1..Len(answer.rows) :
                      \/ answer.rows[i].forecast_timestamp = NULL
                      \/ answer.rows[i].forecast_value = NULL
                \/ /\ answer.rows # <<>>
                   /\ answer.rows[Len(answer.rows)].recommendations = NULL
         [] route = PersonalizedRoute ->
                \E i \in 1..Len(answer.rows) :
                    answer.rows[i].generated_timestamp = NULL
         [] route = DashboardRoute ->
                \E i \in 1..Len(answer.rows) :
                    answer.rows[i].data \notin {MetricsJson, InsightsJson}
         [] route = PreferencesRoute -> FALSE

\* C2: for each of the five authenticated handlers, an exception of the
\* engine call or of the mapping of its rows yields HTTP 500 with the fixed
\* message of the operation; the text of the cause is logged and is not in
\* the response.
C2_FailureIsGeneric ==
    \A route \in AuthenticatedRoutes :
        (HandlerRan(route) /\ (answer.kind = "error" \/ MappingFails(route)))
            => /\ response = Response(500, [detail |-> FailureDetail(route)])
               /\ Len(logged) = 1
               /\ logged[1].prefix = LogPrefix(route)
               /\ answer.kind = "error" => logged[1].cause = answer.cause
               /\ response.body.detail # logged[1].cause
               /\ response.body.detail \notin Causes

C2_Witness ==
    /\ HandlerRan(PreferencesRoute)
    /\ answer = Failed("Connection reset by peer")
    /\ response.status = 500
    /\ logged = <<[prefix |-> "Error updating user preferences",
                   cause |-> "Connection reset by peer"]>>

\* C3: on every route other than GET /, a request whose bearer credential is
\* empty or absent ends in an unauthorized response (401, or the 403 "Not
\* authenticated" of the bearer scheme), and no engine call is made for it;
\* the outcome is not turned into a 500.
C3_NoCredentialNoCall ==
    (request.route \in AuthenticatedRoutes
     /\ request.authorization \in {NoHeader, EmptyToken})
        => /\ response.status \in {401, 403}
           /\ calls = <<>>
           /\ answer = NoAnswer

C3_Witness ==
    /\ request.route = InsightRoute
    /\ request.authorization = EmptyToken
    /\ response = Response(401, [detail |-> "Invalid authentication"])
    /\ calls = <<>>

\* C9: every operation that returns row-derived sequences reports a zero-row
\* engine result as "not found" (404) and not as a successful response with
\* empty sequences, and otherwise returns as many items as the engine
\* returned rows.
C9_ZeroRowsNeverSuccess ==
    /\ (HandlerRan(ForecastRoute) /\ answer.kind = "rows" /\ response.status = 200)
          => /\ answer.rows # <<>>
             /\ Len(response.body.forecast_values) = Len(answer.rows)
    /\ (HandlerRan(PersonalizedRoute) /\ answer.kind = "rows" /\ response.status = 200)
          => /\ answer.rows # <<>>
             /\ Len(response.body.insights) = Len(answer.rows)
    /\ \A route \in {InsightRoute, ForecastRoute, PersonalizedRoute} :
          (HandlerRan(route) /\ answer.kind = "rows" /\ answer.rows = <<>>)
              => response.status = 404

\* C10: in every successful generate_forecast response, forecast_values and
\* confidence_intervals have the length of the engine's rows, and the i-th
\* point and the i-th interval carry the timestamp of the i-th row.
C10_ForecastListsParallel ==
    (HandlerRan(ForecastRoute) /\ response.status = 200)
        => LET fv == response.body.forecast_values
               ci == response.body.confidence_intervals
           IN  /\ Len(fv) = Len(answer.rows)
               /\ Len(ci) = Len(answer.rows)
               /\ \A i \in 1..Len(answer.rows) :
                     /\ fv[i].timestamp = [iso |-> answer.rows[i].forecast_timestamp]
                     /\ ci[i].timestamp = fv[i].timestamp

C10_Witness ==
    /\ HandlerRan(ForecastRoute)
    /\ response.status = 200
    /\ Len(answer.rows) = MaxRows
    /\ answer.rows[1].forecast_timestamp # answer.rows[MaxRows].forecast_timestamp
    /\ Len(response.body.confidence_intervals) = MaxRows

\* ====================================================================
\* Properties of the notebook patchers (checked under SpecPatcher)
\* ====================================================================

\* The last run was a run of the script that parsed the file and wrote it.
Wrote(script) ==
    lastRun.script = script /\ lastRun.outcome = "written"

\* The trigger category of the script that the source of a cell matches
\* ("none" for a cell without source).
SourceCategory(script, cell) ==
    IF cell.has_source THEN Category(script, Join(cell.source)) ELSE "none"

TemplatesOf(script) ==
    CASE script = "final_fix" -> {FinalFixTemplate}
      [] script = "fix_sql_syntax" -> {FixSqlTemplate}
      [] script = "update_to_public_data" ->
            {PublicSetupTemplate, PublicDataTemplate, PublicAnalysisTemplate}
      [] OTHER -> {}

\* C4: after a run of final_fix, fix_sql_syntax or update_to_public_data,
\* every cell whose source matched a trigger before the run holds exactly the
\* template of the category it matched, and every cell that matched no
\* trigger has the source it had.
C4_MatchedCellsHoldTemplate ==
    \A script \in JsonPatchers :
        Wrote(script) =>
            /\ Len(file.cells) = Len(before.cells)
            /\ \A i \in 1..Len(before.cells) :
                  LET category == SourceCategory(script, before.cells[i])
                  IN  IF category # "none"
                      THEN file.cells[i].source = Template(category)
                      ELSE file.cells[i].source = before.cells[i].source

\* C4 as amended: every code cell with a source that matched a trigger holds
\* exactly the template of the first category it matched; every other cell
\* (no trigger matched, not a code cell, or no source) is as it was.
C4_MatchedCodeCellsHoldTemplate ==
    \A script \in JsonPatchers :
        Wrote(script) =>
            /\ Len(file.cells) = Len(before.cells)
            /\ \A i \in 1..Len(before.cells) :
                  LET cell == before.cells[i]
                      category == SourceCategory(script, cell)
                  IN  IF cell.cell_type = "code" /\ cell.has_source /\ category # "none"
                      THEN file.cells[i] = [cell EXCEPT !.source = Template(category)]
                      ELSE file.cells[i] = cell

C4_Witness ==
    /\ Wrote("update_to_public_data")
    /\ \E i, j \in 1..Len(before.cells) :
          /\ before.cells[i].source = CreateTableSource
          /\ file.cells[i].source = PublicDataTemplate
          /\ before.cells[j].cell_type = "markdown"
          /\ AnalysisTrigger(Join(before.cells[j].source))
          /\ file.cells[j] = before.cells[j]

\* No cell the script examines matches a trigger of the script.
NoCellMatches(script, f) ==
    \A i \in 1..Len(f.cells) :
        (f.cells[i].cell_type = "code" /\ f.cells[i].has_source)
            => SourceCategory(script, f.cells[i]) = "none"

C6_FirstCategoryWins ==
    Wrote("update_to_public_data") =>
        \A i \in 1..Len(before.cells) :
            LET cell == before.cells[i]
                text == Join(cell.source)
                after == file.cells[i].source
            IN  (cell.cell_type = "code" /\ cell.has_source) =>
                    /\ SetupTrigger(text) => after = PublicSetupTemplate
                    /\ (~SetupTrigger(text) /\ DataTrigger(text))
                          => after = PublicDataTemplate
                    /\ (~SetupTrigger(text) /\ ~DataTrigger(text) /\ AnalysisTrigger(text))
                          => after = PublicAnalysisTemplate

C6_Witness ==
    /\ Wrote("update_to_public_data")
    /\ \E i, j \in 1..Len(before.cells) :
          /\ before.cells[i].source = SetupAnalysisSource
          /\ SetupTrigger(Join(before.cells[i].source))
          /\ AnalysisTrigger(Join(before.cells[i].source))
          /\ file.cells[i].source = PublicSetupTemplate
          /\ before.cells[j].source = CreateTableSource
          /\ AnalysisTrigger(Join(before.cells[j].source))
          /\ file.cells[j].source = PublicDataTemplate

\* C7: every patcher, fix_ai_generate included, changes a cell only by
\* replacing its whole source with a template: after a run, the source of a
\* cell is the source it had or a template.
C7_WholeCellReplacement ==
    \A script \in Patchers :
        Wrote(script) =>
            \A i \in 1..Len(before.cells) :
                \/ file.cells[i].source = before.cells[i].source
                \/ file.cells[i].source \in
                      {FinalFixTemplate, FixSqlTemplate, PublicSetupTemplate,
                       PublicDataTemplate, PublicAnalysisTemplate}

\* C7 as amended: final_fix, fix_sql_syntax and update_to_public_data change
\* a cell only by replacing its whole source with one of their templates
\* (fix_ai_generate edits the text in place).
C7_JsonPatchersReplaceWholeCell ==
    \A script \in JsonPatchers :
        Wrote(script) =>
            \A i \in 1..Len(before.cells) :
                \/ file.cells[i].source = before.cells[i].source
                \/ file.cells[i].source \in TemplatesOf(script)

C7_Witness ==
    /\ Wrote("fix_sql_syntax")
    /\ \E i \in 1..Len(before.cells) :
          /\ before.cells[i].source = PandasGenerateSource
          /\ file.cells[i].source = FixSqlTemplate

\* C8: for every patcher, fix_ai_generate included, a notebook file that is
\* not a valid JSON document makes the run abort with a parse error before
\* the file is opened for writing, so the stored file is unchanged.
C8_InvalidFileAborts ==
    (lastRun.script \in Patchers /\ ~before.wellformed)
        => /\ lastRun.outcome = "JSONDecodeError"
           /\ file = before

\* ====================================================================
\* Further properties of the orchestrator (checked under SpecApi)
\* ====================================================================

\* C11: in every successful get_personalized_insights response the insights
\* are sorted non-increasing by (relevance_score, business_impact_score),
\* there are at most `limit` of them, and total_count is their number.
C11_PersonalizedSortedAndLimited ==
    (HandlerRan(PersonalizedRoute) /\ response.status = 200)
        => LET insights == response.body.insights
           IN  /\ \A i \in 1..(Len(insights) - 1) :
                     \/ insights[i].relevance_score > insights[i + 1].relevance_score
                     \/ /\ insights[i].relevance_score = insights[i + 1].relevance_score
                        /\ insights[i].business_impact_score
                              >= insights[i + 1].business_impact_score
               /\ Len(insights) <= request.body.limit
               /\ response.body.total_count = Len(insights)

C11_Witness ==
    /\ HandlerRan(PersonalizedRoute)
    /\ response.status = 200
    /\ request.body.limit = 2
    /\ response.body.total_count = 2
    /\ response.body.insights[1].relevance_score = response.body.insights[2].relevance_score
    /\ response.body.insights[1].business_impact_score
          > response.body.insights[2].business_impact_score

\* C12: the role generate_insight sends to the engine for the access-control
\* predicate is the role of the authenticated caller, whatever user_role the
\* body names: two requests of the same caller that differ only in the body's
\* user_role send the same role (a body without user_role sends the caller's
\* role, so the role sent is always the caller's).
C12_RoleIsCallersRole ==
    HandlerRan(InsightRoute) =>
        /\ Len(calls) = 1
        /\ calls[1].params.user_role = DemoUser.role

\* C13: for generate_insight, generate_forecast and get_personalized_insights
\* no request value is written into the SQL text (each reaches the engine as
\* a bound parameter only): the text is the handler's template with the
\* project identifier, the same for all requests.
C13_SqlTextIsFixed ==
    \A route \in {InsightRoute, ForecastRoute, PersonalizedRoute} :
        HandlerRan(route) =>
            \A i \in 1..Len(calls) :
                /\ calls[i].sql.inlined = <<>>
                /\ calls[i].sql.project = project

\* C14: update_user_preferences always appends.  Every successful submission
\* sends one INSERT and adds one row with the submitted values to the rows
\* already there, whether or not an equal row or a row of the same user_id
\* exists; nothing else changes the table.  So n successful submissions leave
\* n rows, and two identical submissions leave two.
C14_AlwaysAppends ==
    [][IF request'.route = PreferencesRoute /\ response'.status = 200
       THEN /\ Len(calls') = 1
            /\ calls'[1].sql.template = "insert_preferences"
            /\ calls'[1].params.user_id = request'.body.user_id
            /\ user_preferences' = Append(user_preferences, calls'[1].params)
       ELSE user_preferences' = user_preferences]_vars

C14_Witness ==
    /\ HandlerRan(PreferencesRoute)
    /\ response.status = 200
    /\ Len(user_preferences) = 2
    /\ user_preferences[1] = user_preferences[2]
    /\ user_preferences[2].user_id = request.body.user_id

\* The body of the request served last lacks a field its route requires.
LacksRequiredField ==
    \/ request.route = InsightRoute /\ request.body.query = MISSING
    \/ request.route = ForecastRoute /\ request.body.metric_name = MISSING
    \/ /\ request.route = PreferencesRoute
       /\ \E f \in {"user_id", "role", "departments", "notification_preferences",
                    "priority_topics"} : f \notin DOMAIN request.body

C17_NoProjectNoService ==
    /\ project = NULL => (request = NoRequest /\ response = NoResponse)
    /\ \A i \in 1..Len(calls) : calls[i].sql.project # NULL

\* C18: every non-empty bearer token is accepted and stands for the same
\* fixed identity (demo_user, analyst).  A request with a non-empty token is
\* never answered as unauthorized, and the engine call made for it is the one
\* the handler makes for that identity and that body, whatever the token: two
\* requests that differ only in their non-empty tokens make the same call.
C18_AnyTokenIsDemoUser ==
    (request.route \in AuthenticatedRoutes /\ request.authorization \in Tokens)
        => /\ response.status \notin {401, 403}
           /\ ValidBody(request.route, request.body) => HandlerRan(request.route)
           /\ HandlerRan(request.route) =>
                 /\ calls = TryBody(request.route, request.body,
                                    [user_id |-> "demo_user", role |-> "analyst"],
                                    answer).calls
                 /\ request.route = PersonalizedRoute
                       => calls[1].params.user_role = "analyst"

C18_Witness ==
    /\ HandlerRan(PersonalizedRoute)
    /\ request.authorization = "other-token"
    /\ response.status = 200
    /\ calls[1].params.user_role = "analyst"

\* ====================================================================
\* Further properties of the notebook patchers (checked under SpecPatcher)
\* ====================================================================

\* The number of cells of the notebook read whose source the run replaced:
\* the code cells with a source that matched a trigger of the script.
ReplacedCells(script, f) ==
    Cardinality({i \in 1..Len(f.cells) :
                    /\ f.cells[i].cell_type = "code"
                    /\ f.cells[i].has_source
                    /\ SourceCategory(script, f.cells[i]) # "none"})

\* C19: every patcher that rewrites cells reports, at the end of a run, a
\* count equal to the number of cells whose source the run replaced.
C19_CountIsReplacedCells ==
    \A script \in JsonPatchers :
        Wrote(script) => lastRun.printed = <<ReplacedCells(script, before)>>

\* C20: a patcher run leaves the number of cells, their order and the kind of
\* each cell as they were (only the source of a cell, or for fix_ai_generate
\* its text, changes); so after any sequence of runs the notebook has the
\* cells it started with, in the same order and of the same kinds.
C20_CellsKept ==
    [][/\ Len(file'.cells) = Len(file.cells)
       /\ \A i \in 1..Len(file.cells) :
             /\ file'.cells[i].cell_type = file.cells[i].cell_type
             /\ file'.cells[i].has_source = file.cells[i].has_source
             /\ lastRun'.script \in JsonPatchers
                   => file'.cells[i].outputs = file.cells[i].outputs]_vars

C20_Witness ==
    /\ Wrote("final_fix")
    /\ Len(before.cells) = MaxCells
    /\ before.cells[1].cell_type = "markdown"
    /\ before.cells[MaxCells].cell_type = "code"
    /\ file.cells[MaxCells].source = FinalFixTemplate
    /\ file.cells[MaxCells].source # before.cells[MaxCells].source
    /\ file.cells[1] = before.cells[1]

\* ====================================================================
\* Properties of concurrent requests (checked under SpecConcurrent)
\* ====================================================================

C21_ForecastMakesTwoRequests ==
    (HandlerRan(ForecastRoute) /\ response.status = 200)
        => /\ Len(calls) = 2
           /\ calls[1].sql.template = "forecast"

\* C21 as amended: generate_forecast makes exactly one engine request per
\* call, successful or not: a single statement that computes the forecast and
\* the strategic interpretation; the points, the intervals and the
\* recommendation of the response all come from the rows of its one result.
C21_ForecastMakesOneRequest ==
    HandlerRan(ForecastRoute) =>
        /\ Len(calls) = 1
        /\ calls[1].sql.template = "forecast"
        /\ calls[1].params = [metric_name |-> request.body.metric_name]
        /\ (response.status = 200 /\ answer.rows # <<>>) =>
              /\ Len(response.body.forecast_values) = Len(answer.rows)
              /\ response.body.strategic_recommendations
                    = answer.rows[Len(answer.rows)].recommendations

C21_Witness ==
    /\ HandlerRan(ForecastRoute)
    /\ response.status = 200
    /\ Len(answer.rows) = MaxRows
    /\ Len(calls) = 1
    /\ response.body.strategic_recommendations = "Invest"

\* C22: get_dashboard_data aggregates two independent engine queries, and its
\* successful response is a mapping that contains both named sub-results,
\* 'metrics' and 'recent_insights'.
C22_DashboardTwoQueries ==
    (HandlerRan(DashboardRoute) /\ response.status = 200)
        => /\ Len(calls) = 2
           /\ DOMAIN response.body = {"metrics", "recent_insights"}

\* The decoded data of the last row of the given data_type.
LastOfType(rows, data_type) ==
    LET last == CHOOSE i \in 1..Len(rows) :
                    /\ rows[i].data_type = data_type
                    /\ \A j \in (i + 1)..Len(rows) : rows[j].data_type # data_type
    IN  CASE rows[last].data = MetricsJson ->
                <<[metric_name |-> "total_insights", metric_value |-> 3]>>
          [] rows[last].data = InsightsJson ->
                <<[insight_id |-> "i1", business_impact_score |-> "0.9"]>>

\* C22 as amended: get_dashboard_data makes one engine query, without
\* parameters; its successful response maps each data_type among the rows of
\* the result to the decoded data of the last row of that data_type, so it
\* holds 'metrics' and 'recent_insights' when the result has a row of each.
C22_DashboardOneQuery ==
    HandlerRan(DashboardRoute) =>
        /\ Len(calls) = 1
        /\ calls[1].sql.template = "dashboard"
        /\ calls[1].params = <<>>
        /\ response.status = 200 =>
              /\ DOMAIN response.body
                    = {answer.rows[i].data_type : i \in 1..Len(answer.rows)}
              /\ \A k \in DOMAIN response.body :
                    response.body[k] = LastOfType(answer.rows, k)

C22_Witness ==
    /\ HandlerRan(DashboardRoute)
    /\ response.status = 200
    /\ Len(calls) = 1
    /\ DOMAIN response.body = {"metrics", "recent_insights"}
    /\ response.body["metrics"] = <<[metric_name |-> "total_insights", metric_value |-> 3]>>
    /\ response.body["recent_insights"]
          = <<[insight_id |-> "i1", business_impact_score |-> "0.9"]>>

\* C23: GET / needs no credential and makes no engine call; whatever was
\* served before it, it is answered 200 with the message and status "active".
C23_RootIsAlwaysActive ==
    request.route = RootRoute =>
        /\ response.status = 200
        /\ DOMAIN response.body = {"message", "status"}
        /\ response.body.status = "active"
        /\ response.body.message = "Enterprise Knowledge Intelligence API"
        /\ calls = <<>>
        /\ answer = NoAnswer
        /\ logged = <<>>

C23_Witness ==
    /\ request.route = RootRoute
    /\ request.authorization = NoHeader
    /\ response.status = 200
    /\ response.body.status = "active"
    /\ user_preferences # <<>>
    /\ calls = <<>>

\* C24: when the engine returns one or more rows, generate_insight answers
\* from the first row alone and ignores the later rows: the insight_id, the
\* content, the scores, the timestamp and the sources of the response are the
\* fields of the first row, and sources is as long as its source_ids.  (A
\* first row that the response model rejects, with a NULL insight or NULL
\* source_ids, ends in the failure response, whatever the later rows hold.)
C24_InsightFromFirstRow ==
    (HandlerRan(InsightRoute) /\ answer.kind = "rows" /\ answer.rows # <<>>)
        => LET row == answer.rows[1]
           IN  IF row.generated_insight = NULL \/ row.source_ids.isnull
               THEN response.status = 500
               ELSE /\ response.status = 200
                    /\ response.body.insight_id = row.insight_id
                    /\ response.body.content = row.generated_insight
                    /\ response.body.confidence_score = row.confidence_score
                    /\ response.body.business_impact_score = row.business_impact_score
                    /\ response.body.generated_timestamp = row.generated_timestamp
                    /\ response.body.sources = row.source_ids.items
                    /\ Len(response.body.sources) = Len(row.source_ids.items)

C24_Witness ==
    /\ HandlerRan(InsightRoute)
    /\ response.status = 200
    /\ Len(answer.rows) = MaxRows
    /\ answer.rows[MaxRows].insight_id # answer.rows[1].insight_id
    /\ answer.rows[MaxRows].source_ids.isnull
    /\ response.body.insight_id = answer.rows[1].insight_id
    /\ Len(response.body.sources) = 1

\* C30: update_user_preferences writes the record under the user_id of the
\* request body, not under the identity of the authenticated caller: the
\* user_id bound in the INSERT is preferences.user_id for every authenticated
\* request, also when it is not the caller's user_id.
C30_PreferencesKeyedByBody ==
    HandlerRan(PreferencesRoute) =>
        /\ Len(calls) = 1
        /\ calls[1].params.user_id = request.body.user_id
        /\ calls[1].params.role = request.body.role
        /\ response.status = 200 =>
              user_preferences[Len(user_preferences)].user_id = request.body.user_id

C30_Witness ==
    /\ HandlerRan(PreferencesRoute)
    /\ response.status = 200
    /\ request.body.user_id = "someone_else"
    /\ request.body.user_id # DemoUser.user_id
    /\ calls[1].params.user_id = "someone_else"
    /\ user_preferences[Len(user_preferences)].user_id = "someone_else"

\* ====================================================================
\* Properties of the notebook patchers, third part (checked under
\* SpecPatcher)
\* ====================================================================

\* C25: final_fix, fix_sql_syntax and update_to_public_data examine only the
\* code cells that have a source.  A markdown cell is never modified, even
\* when its text holds a trigger string, and a replaced code cell keeps every
\* field other than its source.
C25_OnlyCodeSourcesChange ==
    \A script \in JsonPatchers :
        Wrote(script) =>
            \A i \in 1..Len(before.cells) :
                /\ (before.cells[i].cell_type # "code" \/ ~before.cells[i].has_source)
                      => file.cells[i] = before.cells[i]
                /\ file.cells[i].cell_type = before.cells[i].cell_type
                /\ file.cells[i].has_source = before.cells[i].has_source
                /\ file.cells[i].outputs = before.cells[i].outputs

C25_Witness ==
    /\ Wrote("final_fix")
    /\ Len(before.cells) = 2
    /\ before.cells[1] = Cell("markdown", TRUE, MarkdownSource, <<>>)
    /\ FinalFixTrigger(Join(before.cells[1].source))
    /\ file.cells[1] = before.cells[1]
    /\ before.cells[2] = Cell("code", TRUE, ClientSource, BoolOutput)
    /\ file.cells[2] = Cell("code", TRUE, FinalFixTemplate, BoolOutput)

\* C26: each of final_fix, fix_sql_syntax and update_to_public_data is
\* idempotent on the content of the document: when the script that has just
\* run on the notebook runs again, every cell keeps the source (and the other
\* fields) the first run left.
C26_SameScriptTwiceIsOnce ==
    [][(/\ lastRun.script \in JsonPatchers
        /\ lastRun.outcome = "written"
        /\ lastRun'.script = lastRun.script)
          => /\ lastRun'.outcome = "written"
             /\ file'.cells = file.cells]_vars

\* The second of two runs of update_to_public_data in succession, on a
\* notebook whose cells the first run had replaced.
C26_Witness ==
    /\ Wrote("update_to_public_data")
    /\ before.wellformed /\ before.indent = 1
    /\ file.cells = before.cells
    /\ Len(file.cells) = 2
    /\ file.cells[1].source = PublicSetupTemplate
    /\ file.cells[2].source = PublicDataTemplate

\* C27: the template of final_fix satisfies the trigger of final_fix.  When
\* final_fix runs on the result of a run of final_fix, it reports the count
\* the first run reported (so a nonzero count again) although no cell source
\* changes; when fix_sql_syntax runs on the result of a run of
\* fix_sql_syntax, it reports 0.
C27_SecondRunCounts ==
    [][/\ (/\ lastRun.script = "final_fix"
           /\ lastRun.outcome = "written"
           /\ lastRun'.script = "final_fix")
             => /\ lastRun'.printed = lastRun.printed
                /\ file'.cells = file.cells
       /\ (/\ lastRun.script = "fix_sql_syntax"
           /\ lastRun.outcome = "written"
           /\ lastRun'.script = "fix_sql_syntax")
             => /\ lastRun'.printed = <<0>>
                /\ file'.cells = file.cells]_vars

\* The second run of final_fix: both cells already held the template, both
\* are counted again.
C27_Witness ==
    /\ Wrote("final_fix")
    /\ file.cells = before.cells
    /\ Len(before.cells) = 2
    /\ \A i \in 1..Len(before.cells) : before.cells[i].source = FinalFixTemplate
    /\ FinalFixTrigger(Join(FinalFixTemplate))
    /\ ~FixSqlTrigger(Join(FixSqlTemplate))
    /\ lastRun.printed = <<2>>

\* A code cell whose source matches the trigger of final_fix and the trigger
\* of fix_sql_syntax.
MatchesBoth(cell) ==
    /\ cell.cell_type = "code"
    /\ cell.has_source
    /\ FinalFixTrigger(Join(cell.source))
    /\ FixSqlTrigger(Join(cell.source))

\* C28: the result of running final_fix and fix_sql_syntax one after the
\* other depends on the order.  A code cell that matched both triggers holds,
\* after both runs, the template of the script that ran first: the second
\* script does not match the template of the first.
C28_FirstScriptWins ==
    [][/\ (/\ lastRun.script = "final_fix"
           /\ lastRun.outcome = "written"
           /\ lastRun'.script = "fix_sql_syntax")
             => \A i \in 1..Len(before.cells) :
                   MatchesBoth(before.cells[i])
                       => /\ file.cells[i].source = FinalFixTemplate
                          /\ file'.cells[i].source = FinalFixTemplate
       /\ (/\ lastRun.script = "fix_sql_syntax"
           /\ lastRun.outcome = "written"
           /\ lastRun'.script = "final_fix")
             => \A i \in 1..Len(before.cells) :
                   MatchesBoth(before.cells[i])
                       => /\ file.cells[i].source = FixSqlTemplate
                          /\ file'.cells[i].source = FixSqlTemplate]_vars

\* fix_sql_syntax has run on a notebook in which final_fix had replaced a
\* cell, and has left the template of final_fix in it.
C28_Witness ==
    /\ Wrote("fix_sql_syntax")
    /\ MatchesBoth(Cell("code", TRUE, PandasGenerateSource, <<>>))
    /\ Len(before.cells) = 1
    /\ before.cells[1].source = FinalFixTemplate
    /\ file.cells[1].source = FinalFixTemplate
    /\ FinalFixTemplate # FixSqlTemplate
    /\ lastRun.printed = <<0>>

\* A code cell with a source list holding the given lines.
CodeCellHolding(cell, lines) ==
    /\ cell.cell_type = "code"
    /\ cell.has_source
    /\ cell.source = lines

\* C29: final_fix and update_to_public_data undo each other on a setup cell.
\* update_to_public_data rewrites a code cell holding the template of
\* final_fix to the public-data setup template, final_fix rewrites a code
\* cell holding the public-data setup template to its own template, and the
\* two templates differ: in every run of an alternation of the two scripts
\* the cell changes.
C29_ScriptsUndoEachOther ==
    [][/\ FinalFixTemplate # PublicSetupTemplate
       /\ lastRun'.outcome = "written"
             => \A i \in 1..Len(file.cells) :
                   /\ (/\ lastRun'.script = "update_to_public_data"
                       /\ CodeCellHolding(file.cells[i], FinalFixTemplate))
                         => /\ file'.cells[i].source = PublicSetupTemplate
                            /\ file'.cells[i] # file.cells[i]
                   /\ (/\ lastRun'.script = "final_fix"
                       /\ CodeCellHolding(file.cells[i], PublicSetupTemplate))
                         => /\ file'.cells[i].source = FinalFixTemplate
                            /\ file'.cells[i] # file.cells[i]]_vars

\* final_fix has rewritten a cell that held the public-data setup template
\* back to its own template, which update_to_public_data matches again.
C29_Witness ==
    /\ Wrote("final_fix")
    /\ \E i \in 1..Len(before.cells) :
          /\ CodeCellHolding(before.cells[i], PublicSetupTemplate)
          /\ CodeCellHolding(file.cells[i], FinalFixTemplate)
    /\ SetupTrigger(Join(FinalFixTemplate))
    /\ ~SetupTrigger(Join(PublicSetupTemplate))
    /\ lastRun.printed # <<0>>

====
